---- MODULE Spec2Model ----
(***************************************************************************)
(* Model of the Medium tag-feed proxy (src/main.py): the handler of        *)
(* POST /get-tag-feed as a sequence of steps, with the request body, the   *)
(* configured API key and the upstream outcome as inputs.                  *)
(*                                                                         *)
(* JSON values.  A scalar field of a JSON object is a TLA+ string; the two *)
(* sentinels Absent (the key is not in the object) and Null (the key is    *)
(* there with the value null, Python's None) stand beside the real         *)
(* strings, "" included.  An object-valued field is a record with a kind.  *)
(* Texts whose characters matter (the mode, the upstream body) are         *)
(* sequences of one-character strings.                                     *)
(***************************************************************************)
EXTENDS Integers, Sequences, FiniteSets, TLC

VARIABLES pc, MEDIUM_API_KEY, body, variables, upstreamCalls, upstream,
          cleaned_text, data_from_medium, items, item_index,
          processed_articles, response

vars == <<pc, MEDIUM_API_KEY, body, variables, upstreamCalls, upstream,
          cleaned_text, data_from_medium, items, item_index,
          processed_articles, response>>

-----------------------------------------------------------------------------
(* Bounds of the model *)

MaxPad == 1

MaxPrefixes == 2

MaxTail == 1

MaxItems == 2

ReqMaxItems == 1

-----------------------------------------------------------------------------
(* JSON values and the Python operations on them *)

Absent == "<absent>"

Null == "<null>"

JAbsent == [kind |-> "absent"]

JNull == [kind |-> "null"]

JString(s) == [kind |-> "string", s |-> s]

JArray(elems) == [kind |-> "array", elems |-> elems]

\* d.get(key): None when the key is absent
DictGet(v) == IF v = Absent THEN Null ELSE v

\* d.get(key, default): the default only when the key is absent
DictGetDefault(v, default) == IF v = Absent THEN default ELSE v

\* "not v" of a str-or-None value
Falsy(v) == v \in {Null, ""}

\* an f-string's rendering of a str-or-None value
FStr(v) == IF v = Null THEN "None" ELSE v

\* d.get(key) / d.get(key, {}) of an object-valued field
ObjGet(v) == IF v.kind = "absent" THEN JNull ELSE v

EmptyDict == [kind |-> "object", name |-> Absent, username |-> Absent]

ObjGetDefault(v) == IF v.kind = "absent" THEN EmptyDict ELSE v

-----------------------------------------------------------------------------
(* clean_medium_response *)

prefix_to_remove ==
    << "]", ")", "}", "w", "h", "i", "l", "e", "(", "1", ")", ";", "<", "/", "x", ">" >>

startswith(text, p) == Len(text) >= Len(p) /\ SubSeq(text, 1, Len(p)) = p

clean_strip_everywhere(text) ==
    IF Len(text) >= Len(prefix_to_remove)
    THEN SubSeq(text, Len(prefix_to_remove) + 1, Len(text))
    ELSE text

clean_medium_response(text) ==
    IF startswith(text, prefix_to_remove)
    THEN SubSeq(text, Len(prefix_to_remove) + 1, Len(text))
    ELSE text

-----------------------------------------------------------------------------
(* The normalizer: the body of the loop over the upstream items *)

\* "not post_data": None, or a dict with no key at all
PostFalsy(post_data) ==
    \/ post_data.kind = "null"
    \/ /\ post_data.kind = "object"
       /\ post_data.title = Absent
       /\ post_data.mediumUrl = Absent
       /\ post_data.uniqueSlug = Absent
       /\ post_data.id = Absent
       /\ post_data.creator.kind = "absent"
       /\ ~post_data.extra

\* post_data.get("creator", {}).get(...) on "creator": null is None.get(...)
CreatorRaises(post_data) == post_data.creator.kind = "null"

title_of(post_data) == DictGetDefault(post_data.title, "Untitled")

author_name_of(post_data) ==
    DictGetDefault(ObjGetDefault(post_data.creator).name, "Unknown Author")

\* the fallback link construction, entered when mediumUrl gave no link;
\* article_link keeps its falsy value when no branch assigns it
fallback_link(article_link, feed_id, post_data) ==
    LET unique_slug == DictGet(post_data.uniqueSlug)
        author_username == DictGet(ObjGetDefault(post_data.creator).username)
    IN  IF ~Falsy(unique_slug)
        THEN IF ~Falsy(author_username)
             THEN "https://" \o author_username \o ".medium.com/" \o unique_slug
             ELSE "https://medium.com/p/"
                     \o FStr(DictGetDefault(post_data.id, unique_slug))
        ELSE IF ~Falsy(feed_id)
             THEN "https://medium.com/p/" \o FStr(feed_id)
             ELSE article_link

link_without_placeholder(article_link, feed_id, post_data) == article_link

link_or_placeholder(article_link, feed_id, post_data) ==
    IF Falsy(article_link)
    THEN "Link construction failed (feedId: " \o FStr(feed_id)
            \o ", postId: " \o FStr(DictGet(post_data.id)) \o ")"
    ELSE article_link

article_link_of(feed_id, post_data) ==
    LET from_url == DictGet(post_data.mediumUrl)
        constructed == IF Falsy(from_url)
                       THEN fallback_link(from_url, feed_id, post_data)
                       ELSE from_url
    IN  link_or_placeholder(constructed, feed_id, post_data)

\* one iteration of the loop: skip the item, raise, or append an article
ProcessItem(item) ==
    IF item.kind # "object"
    THEN [outcome |-> "raise"]
    ELSE LET post_data == ObjGet(item.post)
             feed_id == DictGet(item.feedId)
         IN  IF PostFalsy(post_data)
             THEN [outcome |-> "skip"]
             ELSE IF CreatorRaises(post_data)
             THEN [outcome |-> "raise"]
             ELSE [outcome |-> "article",
                   article |-> [title |-> title_of(post_data),
                                author |-> author_name_of(post_data),
                                link |-> article_link_of(feed_id, post_data)]]

-----------------------------------------------------------------------------
(* Request validation: str(mode).strip().upper() and the valid modes *)

LowerChars ==
    << "a", "b", "c", "d", "e", "f", "g", "h", "i", "j", "k", "l", "m",
       "n", "o", "p", "q", "r", "s", "t", "u", "v", "w", "x", "y", "z" >>

UpperChars ==
    << "A", "B", "C", "D", "E", "F", "G", "H", "I", "J", "K", "L", "M",
       "N", "O", "P", "Q", "R", "S", "T", "U", "V", "W", "X", "Y", "Z" >>

Whitespace == {" ", "\t", "\n"}

UpperChar(c) ==
    IF \E i \in 1..Len(LowerChars) : LowerChars[i] = c
    THEN UpperChars[CHOOSE i \in 1..Len(LowerChars) : LowerChars[i] = c]
    ELSE c

upper(s) == [i \in 1..Len(s) |-> UpperChar(s[i])]

RECURSIVE lstrip(_)
lstrip(s) == IF s # <<>> /\ Head(s) \in Whitespace THEN lstrip(Tail(s)) ELSE s

RECURSIVE rstrip(_)
rstrip(s) ==
    IF s # <<>> /\ s[Len(s)] \in Whitespace
    THEN rstrip(SubSeq(s, 1, Len(s) - 1))
    ELSE s

strip(s) == rstrip(lstrip(s))

normalize_without_strip(mode) == upper(mode)

NormalizeMode(mode) == upper(strip(mode))

MODE_HOT == << "H", "O", "T" >>

MODE_NEW == << "N", "E", "W" >>

MODE_TOP_ALL_TIME == << "T", "O", "P", "_", "A", "L", "L", "_", "T", "I", "M", "E" >>

MODE_TOP_MONTH == << "T", "O", "P", "_", "M", "O", "N", "T", "H" >>

MODE_TOP_WEEK == << "T", "O", "P", "_", "W", "E", "E", "K" >>

MODE_TOP_YEAR == << "T", "O", "P", "_", "Y", "E", "A", "R" >>

valid_modes == << MODE_HOT, MODE_NEW, MODE_TOP_ALL_TIME, MODE_TOP_MONTH, MODE_TOP_WEEK, MODE_TOP_YEAR >>

InList(x, list) == \E i \in 1..Len(list) : list[i] = x

\* the Python str of a sequence of characters
RECURSIVE Text(_)
Text(s) == IF s = <<>> THEN "" ELSE Head(s) \o Text(Tail(s))

\* ', '.join(list)
RECURSIVE Join(_)
Join(list) ==
    IF list = <<>> THEN ""
    ELSE IF Len(list) = 1 THEN Text(list[1])
    ELSE Text(Head(list)) \o ", " \o Join(Tail(list))

-----------------------------------------------------------------------------
(* Responses *)

NoResponse == [kind |-> "none"]

\* jsonify(...), status
JsonResponse(status, error, details, articles) ==
    [kind |-> "json", status |-> status, error |-> error,
     details |-> details, articles |-> articles]

\* an exception that leaves the view function: the framework's generic 500,
\* not a response the handler built
UnhandledFault == [kind |-> "fault", status |-> 500]

ConfigErrorResponse ==
    JsonResponse(500, "Server configuration error: API key missing.",
                 JAbsent, JAbsent)

NoJsonResponse ==
    JsonResponse(400,
        "No JSON data provided in request body or invalid JSON format.",
        JAbsent, JAbsent)

InvalidJsonResponse ==
    JsonResponse(400, "Invalid JSON format in request body.", JAbsent, JAbsent)

MissingTagSlugResponse ==
    JsonResponse(400, "Missing 'tagSlug' in request body.", JAbsent, JAbsent)

MissingModeResponse ==
    JsonResponse(400, "Missing 'mode' in request body.", JAbsent, JAbsent)

InvalidModeResponse ==
    JsonResponse(400, "Invalid mode. Must be one of: " \o Join(valid_modes),
                 JAbsent, JAbsent)

GraphQLErrorResponse(errors) ==
    JsonResponse(400, "GraphQL error(s) received from Medium.", errors, JAbsent)

InternalErrorResponse ==
    JsonResponse(500, "An unexpected internal server error occurred.",
                 JString("Please check server logs."), JAbsent)

BadPayloadResponse ==
    JsonResponse(502, "Invalid or unexpected response format from Medium.",
                 JString("str(e)"), JAbsent)

SuccessResponse(articles) ==
    JsonResponse(200, Absent, JAbsent, JArray(articles))

upstream_failure_swapped(outcome) ==
    IF outcome.kind = "http_error"
    THEN JsonResponse(outcome.status,
             "Failed to communicate effectively with Medium API.",
             JString("str(e)"), JAbsent)
    ELSE IF outcome.kind = "timeout"
    THEN JsonResponse(503,
             "Network error connecting to Medium API. Check internet connection.",
             JString("str(e)"), JAbsent)
    ELSE JsonResponse(504, "Request to Medium API timed out.",
             JString("The upstream server took too long to respond."), JAbsent)

\* the except clauses for HTTPError, Timeout and RequestException, in order
UpstreamFailureResponse(outcome) ==
    IF outcome.kind = "http_error"
    THEN JsonResponse(outcome.status,
             "Failed to communicate effectively with Medium API.",
             JString("str(e)"), JAbsent)
    ELSE IF outcome.kind = "timeout"
    THEN JsonResponse(504, "Request to Medium API timed out.",
             JString("The upstream server took too long to respond."), JAbsent)
    ELSE JsonResponse(503,
             "Network error connecting to Medium API. Check internet connection.",
             JString("str(e)"), JAbsent)

-----------------------------------------------------------------------------
(* The request: configuration, body, validation *)

config_always_ok(key) == TRUE

\* "if not MEDIUM_API_KEY" is not taken
ConfigOK(key) == ~Falsy(key)

\* request.get_json(): the parsed value, None, or an exception
get_json(b) ==
    IF b.kind = "unparseable" THEN [raised |-> TRUE]
    ELSE IF b.kind = "absent" THEN [raised |-> FALSE, value |-> JNull]
    ELSE [raised |-> FALSE, value |-> b]

\* "not client_data"
ClientDataFalsy(v) ==
    \/ v.kind = "null"
    \/ v.kind = "object" /\ v.tagSlug = Absent /\ v.mode.kind = "absent" /\ ~v.extra
    \/ v.kind = "array" /\ v.elems = <<>>
    \/ v.kind = "string" /\ v.s = ""
    \/ v.kind = "number" /\ v.n = 0

\* "not mode" of client_data.get('mode')
ModeFalsy(m) == m.kind \in {"absent", "null"} \/ m.s = <<>>

\* from client_data.get('tagSlug') to the variables sent upstream
ValidateRequest(client_data) ==
    IF client_data.kind # "object"
    THEN [outcome |-> "raise"]
    ELSE LET tag_slug == DictGet(client_data.tagSlug)
             mode == ObjGet(client_data.mode)
         IN  IF Falsy(tag_slug)
             THEN [outcome |-> "reject", response |-> MissingTagSlugResponse]
             ELSE IF ModeFalsy(mode)
             THEN [outcome |-> "reject", response |-> MissingModeResponse]
             ELSE IF ~InList(NormalizeMode(mode.s), valid_modes)
             THEN [outcome |-> "reject", response |-> InvalidModeResponse]
             ELSE [outcome |-> "accept",
                   variables |-> [tagSlug |-> tag_slug,
                                  mode |-> NormalizeMode(mode.s)]]

-----------------------------------------------------------------------------
(* The upstream response: parsing, GraphQL errors, the item list *)

\* the text of the JSON document an upstream response carries, as one token
DocTok == "{json}"

\* json.loads(cleaned_text): the document when the text is exactly its text
json_loads(text, doc) ==
    IF text = << DocTok >>
    THEN [raised |-> FALSE, value |-> doc]
    ELSE [raised |-> TRUE]

\* data_from_medium["errors"] is truthy
ErrorsTruthy(errors) == errors.kind = "array" /\ errors.elems # <<>>

\* data_from_medium.get("data", {}).get("tagFeed", {}).get("items", []),
\* then len(items)
ItemsOf(doc) ==
    IF doc.data.kind = "absent" THEN [raised |-> FALSE, items |-> <<>>]
    ELSE IF doc.data.kind # "object" THEN [raised |-> TRUE]
    ELSE IF doc.data.tagFeed.kind = "absent" THEN [raised |-> FALSE, items |-> <<>>]
    ELSE IF doc.data.tagFeed.kind # "object" THEN [raised |-> TRUE]
    ELSE IF doc.data.tagFeed.items.kind = "absent" THEN [raised |-> FALSE, items |-> <<>>]
    ELSE IF doc.data.tagFeed.items.kind # "array" THEN [raised |-> TRUE]
    ELSE [raised |-> FALSE, items |-> doc.data.tagFeed.items.elems]

\* from the errors check to the item list
ExamineDocument(doc) ==
    IF doc.kind # "object"
    THEN [outcome |-> "raise"]
    ELSE IF ErrorsTruthy(doc.errors)
    THEN [outcome |-> "graphql_errors", errors |-> doc.errors]
    ELSE IF ItemsOf(doc).raised
    THEN [outcome |-> "raise"]
    ELSE [outcome |-> "items", items |-> ItemsOf(doc).items]

-----------------------------------------------------------------------------
(* The steps of get_tag_feed_handler *)

Finish(r) == pc' = "done" /\ response' = r

\* a request arrives with some body
Receive(bodies) ==
    /\ pc = "start"
    /\ \E b \in bodies : body' = b
    /\ pc' = "config"
    /\ UNCHANGED <<MEDIUM_API_KEY, variables, upstreamCalls, upstream,
                   cleaned_text, data_from_medium, items, item_index,
                   processed_articles, response>>

CheckConfiguration ==
    /\ pc = "config"
    /\ IF ConfigOK(MEDIUM_API_KEY)
       THEN pc' = "body" /\ UNCHANGED response
       ELSE Finish(ConfigErrorResponse)
    /\ UNCHANGED <<MEDIUM_API_KEY, body, variables, upstreamCalls, upstream,
                   cleaned_text, data_from_medium, items, item_index,
                   processed_articles>>

ParseBody ==
    /\ pc = "body"
    /\ IF get_json(body).raised
       THEN Finish(InvalidJsonResponse)
       ELSE IF ClientDataFalsy(get_json(body).value)
       THEN Finish(NoJsonResponse)
       ELSE pc' = "validate" /\ UNCHANGED response
    /\ UNCHANGED <<MEDIUM_API_KEY, body, variables, upstreamCalls, upstream,
                   cleaned_text, data_from_medium, items, item_index,
                   processed_articles>>

Validate ==
    /\ pc = "validate"
    /\ LET v == ValidateRequest(get_json(body).value)
       IN  IF v.outcome = "raise"
           THEN Finish(UnhandledFault) /\ UNCHANGED variables
           ELSE IF v.outcome = "reject"
           THEN Finish(v.response) /\ UNCHANGED variables
           ELSE pc' = "send" /\ variables' = v.variables /\ UNCHANGED response
    /\ UNCHANGED <<MEDIUM_API_KEY, body, upstreamCalls, upstream,
                   cleaned_text, data_from_medium, items, item_index,
                   processed_articles>>

\* requests.post(...) and raise_for_status(), with the except clauses of the
\* three requests exceptions
SendUpstream(outcomes) ==
    /\ pc = "send"
    /\ upstreamCalls' = upstreamCalls + 1
    /\ \E o \in outcomes :
          /\ upstream' = o
          /\ IF o.kind = "ok"
             THEN pc' = "clean" /\ UNCHANGED response
             ELSE Finish(UpstreamFailureResponse(o))
    /\ UNCHANGED <<MEDIUM_API_KEY, body, variables, cleaned_text,
                   data_from_medium, items, item_index, processed_articles>>

CleanResponse ==
    /\ pc = "clean"
    /\ cleaned_text' = clean_medium_response(upstream.text)
    /\ pc' = "parse"
    /\ UNCHANGED <<MEDIUM_API_KEY, body, variables, upstreamCalls, upstream,
                   data_from_medium, items, item_index, processed_articles,
                   response>>

ParseResponse ==
    /\ pc = "parse"
    /\ LET r == json_loads(cleaned_text, upstream.doc)
       IN  IF r.raised
           THEN Finish(BadPayloadResponse) /\ UNCHANGED data_from_medium
           ELSE pc' = "errors" /\ data_from_medium' = r.value
                /\ UNCHANGED response
    /\ UNCHANGED <<MEDIUM_API_KEY, body, variables, upstreamCalls, upstream,
                   cleaned_text, items, item_index, processed_articles>>

CheckGraphQLErrors ==
    /\ pc = "errors"
    /\ LET r == ExamineDocument(data_from_medium)
       IN  IF r.outcome = "raise"
           THEN Finish(InternalErrorResponse) /\ UNCHANGED items
           ELSE IF r.outcome = "graphql_errors"
           THEN Finish(GraphQLErrorResponse(r.errors)) /\ UNCHANGED items
           ELSE pc' = "loop" /\ items' = r.items /\ UNCHANGED response
    /\ UNCHANGED <<MEDIUM_API_KEY, body, variables, upstreamCalls, upstream,
                   cleaned_text, data_from_medium, item_index,
                   processed_articles>>

\* one iteration of "for item_index, item in enumerate(items)"
ProcessNextItem ==
    /\ pc = "loop"
    /\ item_index < Len(items)
    /\ LET r == ProcessItem(items[item_index + 1])
       IN  IF r.outcome = "raise"
           THEN Finish(InternalErrorResponse)
                /\ UNCHANGED <<item_index, processed_articles>>
           ELSE /\ item_index' = item_index + 1
                /\ processed_articles' =
                      IF r.outcome = "article"
                      THEN Append(processed_articles, r.article)
                      ELSE processed_articles
                /\ UNCHANGED <<pc, response>>
    /\ UNCHANGED <<MEDIUM_API_KEY, body, variables, upstreamCalls, upstream,
                   cleaned_text, data_from_medium, items>>

\* the loop is over: jsonify({"articles": processed_articles}), 200
Respond ==
    /\ pc = "loop"
    /\ item_index = Len(items)
    /\ Finish(SuccessResponse(processed_articles))
    /\ UNCHANGED <<MEDIUM_API_KEY, body, variables, upstreamCalls, upstream,
                   cleaned_text, data_from_medium, items, item_index,
                   processed_articles>>

-----------------------------------------------------------------------------
(* The inputs: request bodies, upstream outcomes, upstream items *)

SeqsUpTo(S, n) == UNION {[1..k -> S] : k \in 0..n}

PadChars == {" "}

ModeCores ==
    { MODE_HOT, MODE_NEW, MODE_TOP_ALL_TIME, MODE_TOP_MONTH, MODE_TOP_WEEK,
      MODE_TOP_YEAR,
      << "h", "o", "t" >>, << "n", "e", "w" >>, << "H", "o", "t" >>,
      << "t", "o", "p", "_", "w", "e", "e", "k" >>,
      << "T", "o", "p", "_", "Y", "e", "a", "r" >>,
      << "H", "O" >>, << "H", "O", "T", "T" >>, << "T", "O", "P" >>,
      << "T", "O", "P", " ", "W", "E", "E", "K" >>,
      << "\t", "n", "e", "w", "\n" >>, << "b", "e", "s", "t" >>, << >> }

ModeInputs ==
    { l \o core \o r : l \in SeqsUpTo(PadChars, MaxPad),
                       core \in ModeCores,
                       r \in SeqsUpTo(PadChars, MaxPad) }

ObjectBodies ==
    { [kind |-> "object", tagSlug |-> t, mode |-> m, extra |-> FALSE] :
        t \in {Absent, Null, "", "rust", " "},
        m \in {JAbsent, JNull} \cup {JString(x) : x \in ModeInputs} }
    \cup { [kind |-> "object", tagSlug |-> Absent, mode |-> JAbsent,
            extra |-> TRUE] }

RequestBodies ==
    ObjectBodies
    \cup { [kind |-> "absent"], [kind |-> "unparseable"], JNull,
           JArray(<< >>), JArray(<< "x" >>), JString(""), JString("x"),
           [kind |-> "number", n |-> 0], [kind |-> "number", n |-> 5] }

ApiKeys == {Null, "", "secret"}

Creators ==
    { JAbsent, JNull }
    \cup { [kind |-> "object", name |-> n, username |-> u] :
             n \in {Absent, Null, "", "Alice"},
             u \in {Absent, Null, "", "alice"} }

Posts ==
    { JAbsent, JNull }
    \cup { [kind |-> "object", title |-> t, mediumUrl |-> m, uniqueSlug |-> s,
            id |-> i, creator |-> c, extra |-> FALSE] :
             t \in {Absent, Null, "", "A Title"},
             m \in {Absent, Null, "", "https://medium.com/@alice/a-title"},
             s \in {Absent, Null, "", "a-title-123"},
             i \in {Absent, Null, "", "123"},
             c \in Creators }
    \cup { [kind |-> "object", title |-> Absent, mediumUrl |-> Absent,
            uniqueSlug |-> Absent, id |-> Absent, creator |-> JAbsent,
            extra |-> TRUE] }

\* every shape of one upstream item
Items ==
    { [kind |-> "object", feedId |-> f, post |-> p] :
        f \in {Absent, Null, "", "f9"}, p \in Posts }

EmptyPost ==
    [kind |-> "object", title |-> Absent, mediumUrl |-> Absent,
     uniqueSlug |-> Absent, id |-> Absent, creator |-> JAbsent, extra |-> FALSE]

FullPost ==
    [kind |-> "object", title |-> "A Title",
     mediumUrl |-> "https://medium.com/@alice/a-title",
     uniqueSlug |-> "a-title-123", id |-> "123",
     creator |-> [kind |-> "object", name |-> "Alice", username |-> "alice"],
     extra |-> FALSE]

SlugPost ==
    [kind |-> "object", title |-> "B Title", mediumUrl |-> Absent,
     uniqueSlug |-> "b-title-456", id |-> "456",
     creator |-> [kind |-> "object", name |-> "Bob", username |-> "bob"],
     extra |-> FALSE]

NullCreatorPost ==
    [kind |-> "object", title |-> "C Title", mediumUrl |-> Absent,
     uniqueSlug |-> Absent, id |-> "789", creator |-> JNull, extra |-> FALSE]

Item(f, p) == [kind |-> "object", feedId |-> f, post |-> p]

\* the items of the feeds the whole handler is run on
CoreItems == { Item("f1", FullPost), Item("f2", JNull) }

FeedItems ==
    { Item("f1", FullPost), Item("f2", JNull), Item("f3", JAbsent),
      Item("f4", SlugPost), Item("f5", EmptyPost),
      Item("f6", NullCreatorPost), JNull }

ErrorArrays == { JAbsent, JNull, JArray(<< >>), JArray(<< "e1" >>),
                 JArray(<< "e1", "e2" >>) }

TagFeeds(itemSeqs) ==
    { JAbsent, JNull }
    \cup { [kind |-> "object", items |-> i] :
             i \in {JAbsent, JNull} \cup {JArray(q) : q \in itemSeqs} }

\* the JSON documents upstream may answer with
Docs(itemSeqs) ==
    { [kind |-> "object", errors |-> e, data |-> d] :
        e \in ErrorArrays,
        d \in {JAbsent, JNull}
              \cup {[kind |-> "object", tagFeed |-> t] : t \in TagFeeds(itemSeqs)} }
    \cup { JNull, JArray(<< >>), JString("x"), [kind |-> "number", n |-> 5] }

RECURSIVE PrefixCopies(_)
PrefixCopies(k) ==
    IF k = 0 THEN << >> ELSE prefix_to_remove \o PrefixCopies(k - 1)

HttpErrorStatuses == {400, 403, 404, 429, 500, 503}

\* what requests.post and raise_for_status can end in
Outcomes(docs) ==
    { [kind |-> "http_error", status |-> c] : c \in HttpErrorStatuses }
    \cup { [kind |-> "timeout"], [kind |-> "network"] }
    \cup { [kind |-> "ok", text |-> PrefixCopies(k) \o << DocTok >>, doc |-> d] :
             k \in 0..MaxPrefixes, d \in docs }
    \cup { [kind |-> "ok", text |-> PrefixCopies(k) \o t, doc |-> JNull] :
             k \in 0..MaxPrefixes, t \in {<< >>, << "?" >>} }

ReqOutcomes == Outcomes(Docs(SeqsUpTo(CoreItems, ReqMaxItems)))

FeedOutcomes == Outcomes(Docs(SeqsUpTo(FeedItems, MaxItems)))

\* proper prefixes of the literal prefix, then a short tail
CleanBodies ==
    { PrefixCopies(k) \o SubSeq(prefix_to_remove, 1, n) \o t :
        k \in 0..MaxPrefixes, n \in 0..(Len(prefix_to_remove) - 1),
        t \in SeqsUpTo({"]", DocTok, "?"}, MaxTail) }

-----------------------------------------------------------------------------
(* The whole handler, from start-up on *)

Init ==
    /\ pc = "start"
    /\ MEDIUM_API_KEY \in ApiKeys
    /\ body = [kind |-> "none"]
    /\ variables = [kind |-> "none"]
    /\ upstreamCalls = 0
    /\ upstream = [kind |-> "none"]
    /\ cleaned_text = << >>
    /\ data_from_medium = [kind |-> "none"]
    /\ items = << >>
    /\ item_index = 0
    /\ processed_articles = << >>
    /\ response = NoResponse

Next ==
    \/ Receive(RequestBodies)
    \/ CheckConfiguration
    \/ ParseBody
    \/ Validate
    \/ SendUpstream(ReqOutcomes)
    \/ CleanResponse
    \/ ParseResponse
    \/ CheckGraphQLErrors
    \/ ProcessNextItem
    \/ Respond

Spec == Init /\ [][Next]_vars

-----------------------------------------------------------------------------
(* The handler from the upstream call on, for the request                  *)
(* {"tagSlug": "rust", "mode": "hot"}, over every feed of FeedItems        *)

RustHotBody ==
    [kind |-> "object", tagSlug |-> "rust",
     mode |-> JString(<< "h", "o", "t" >>), extra |-> FALSE]

InitFeed ==
    /\ pc = "send"
    /\ MEDIUM_API_KEY = "secret"
    /\ body = RustHotBody
    /\ variables = ValidateRequest(RustHotBody).variables
    /\ upstreamCalls = 0
    /\ upstream = [kind |-> "none"]
    /\ cleaned_text = << >>
    /\ data_from_medium = [kind |-> "none"]
    /\ items = << >>
    /\ item_index = 0
    /\ processed_articles = << >>
    /\ response = NoResponse

NextFeed ==
    \/ SendUpstream(FeedOutcomes)
    \/ CleanResponse
    \/ ParseResponse
    \/ CheckGraphQLErrors
    \/ ProcessNextItem
    \/ Respond

SpecFeed == InitFeed /\ [][NextFeed]_vars

-----------------------------------------------------------------------------
(* The normalizer on a feed of one item, over every shape of the item *)

OneItemDoc(item) ==
    [kind |-> "object", errors |-> JAbsent,
     data |-> [kind |-> "object",
               tagFeed |-> [kind |-> "object", items |-> JArray(<< item >>)]]]

InitItem ==
    /\ pc = "loop"
    /\ MEDIUM_API_KEY = "secret"
    /\ body = RustHotBody
    /\ variables = ValidateRequest(RustHotBody).variables
    /\ upstreamCalls = 1
    /\ \E item \in Items :
          /\ upstream = [kind |-> "ok", text |-> << DocTok >>,
                         doc |-> OneItemDoc(item)]
          /\ data_from_medium = OneItemDoc(item)
          /\ items = << item >>
    /\ cleaned_text = << DocTok >>
    /\ item_index = 0
    /\ processed_articles = << >>
    /\ response = NoResponse

NextItem ==
    \/ ProcessNextItem
    \/ Respond

SpecItem == InitItem /\ [][NextItem]_vars

-----------------------------------------------------------------------------
(* The handler from the cleaning of the upstream body on, over bodies that *)
(* hold the literal prefix zero or more times, whole or in part            *)

InitClean ==
    /\ pc = "clean"
    /\ MEDIUM_API_KEY = "secret"
    /\ body = RustHotBody
    /\ variables = ValidateRequest(RustHotBody).variables
    /\ upstreamCalls = 1
    /\ \E t \in CleanBodies :
          upstream = [kind |-> "ok", text |-> t,
                      doc |-> OneItemDoc(Item("f1", FullPost))]
    /\ cleaned_text = << >>
    /\ data_from_medium = [kind |-> "none"]
    /\ items = << >>
    /\ item_index = 0
    /\ processed_articles = << >>
    /\ response = NoResponse

NextClean ==
    \/ CleanResponse
    \/ ParseResponse
    \/ CheckGraphQLErrors
    \/ ProcessNextItem
    \/ Respond

SpecClean == InitClean /\ [][NextClean]_vars

-----------------------------------------------------------------------------
(* What the claims speak of, stated apart from the handler's own operators *)

\* a field holds a value: the key is there, not null and not empty
Present(v) == v \notin {Absent, Null, ""}

HasLiteralPrefix(t) ==
    /\ Len(t) >= Len(prefix_to_remove)
    /\ \A i \in 1..Len(prefix_to_remove) : t[i] = prefix_to_remove[i]

WithoutLiteralPrefix(t) ==
    IF HasLiteralPrefix(t)
    THEN [i \in 1..(Len(t) - Len(prefix_to_remove)) |->
             t[i + Len(prefix_to_remove)]]
    ELSE t

\* the mode with the whitespace at both ends dropped and every letter uppercased
TrimmedUpper(m) ==
    LET solid == {i \in 1..Len(m) : m[i] \notin Whitespace}
    IN  IF solid = {} THEN << >>
        ELSE LET lo == CHOOSE i \in solid : \A j \in solid : i <= j
                 hi == CHOOSE i \in solid : \A j \in solid : j <= i
             IN  [k \in 1..(hi - lo + 1) |-> UpperChar(m[lo + k - 1])]

SixModes ==
    { MODE_HOT, MODE_NEW, MODE_TOP_ALL_TIME, MODE_TOP_MONTH, MODE_TOP_WEEK,
      MODE_TOP_YEAR }

KeyConfigured == MEDIUM_API_KEY \notin {Null, ""}

TagSlugGiven(b) == b.tagSlug \notin {Absent, Null, ""}

ModeGiven(b) == b.mode.kind = "string" /\ b.mode.s # << >>

BodyValid(b) ==
    /\ b.kind = "object"
    /\ TagSlugGiven(b)
    /\ ModeGiven(b)
    /\ TrimmedUpper(b.mode.s) \in SixModes

Done == pc = "done"

Ok200 == Done /\ response.kind = "json" /\ response.status = 200

Articles == response.articles.elems

\* an error response of the handler: an error field and no articles
ErrorResponse(status) ==
    /\ Done
    /\ response.kind = "json"
    /\ response.status = status
    /\ response.error # Absent
    /\ response.articles.kind = "absent"

Rejected(message) ==
    /\ ErrorResponse(400)
    /\ response.error = message
    /\ upstreamCalls = 0

PastValidation == pc \notin {"start", "config", "body", "validate"}

-----------------------------------------------------------------------------
(* C1 *)

UsernameOf(post) ==
    IF post.creator.kind = "object" THEN post.creator.username ELSE Absent

ChainLink(item, link) ==
    LET post == item.post
    IN  IF Present(post.mediumUrl)
        THEN link = post.mediumUrl
        ELSE IF Present(post.uniqueSlug) /\ Present(UsernameOf(post))
        THEN link = "https://" \o UsernameOf(post) \o ".medium.com/"
                       \o post.uniqueSlug
        ELSE IF Present(post.uniqueSlug)
        THEN link = "https://medium.com/p/"
                       \o (IF Present(post.id) THEN post.id ELSE post.uniqueSlug)
        ELSE IF Present(item.feedId)
        THEN link = "https://medium.com/p/" \o item.feedId
        ELSE Present(link)

\* C1: the link of the article emitted for an item with a post is the one
\* the first matching rule of the chain gives: mediumUrl; else
\* https://{username}.medium.com/{uniqueSlug}; else https://medium.com/p/
\* followed by post.id when present and by uniqueSlug otherwise; else
\* https://medium.com/p/{feedId}; else a placeholder.
C1_LinkChain ==
    (Ok200 /\ Len(Articles) = 1) => ChainLink(items[1], Articles[1].link)

-----------------------------------------------------------------------------
(* C3 *)

NameOf(post) ==
    IF post.creator.kind = "object" THEN post.creator.name ELSE Absent

\* C3: the title of an emitted article is post.title when present and
\* non-empty and "Untitled" otherwise (absent, null, empty); its author is
\* post.creator.name when present and non-empty and "Unknown Author" otherwise.
C3_TitleAuthorDefaults ==
    (Ok200 /\ Len(Articles) = 1) =>
        LET post == items[1].post
        IN  /\ Articles[1].title =
                  IF Present(post.title) THEN post.title ELSE "Untitled"
            /\ Articles[1].author =
                  IF Present(NameOf(post)) THEN NameOf(post)
                  ELSE "Unknown Author"

-----------------------------------------------------------------------------
(* C9 *)

\* C9: every article of a 200 response has a non-empty link, whatever of
\* mediumUrl, uniqueSlug, creator.username, post.id and feedId is present,
\* absent or empty.
C9_LinkNonEmpty ==
    Ok200 =>
        \A i \in 1..Len(Articles) : Articles[i].link \notin {Absent, Null, ""}

\* the placeholder case: no mediumUrl, no uniqueSlug, no feedId
C9_Witness ==
    /\ Ok200
    /\ Len(Articles) = 1
    /\ items[1].post.mediumUrl = ""
    /\ items[1].post.uniqueSlug = Absent
    /\ items[1].feedId = ""
    /\ Articles[1].link \notin {Absent, Null, ""}

-----------------------------------------------------------------------------
(* C2 *)

HasPost(item) == item.kind = "object" /\ item.post.kind = "object"

\* C2: a 200 response holds exactly one article for each upstream item that
\* has a post, in the order of the items, and nothing for the others; so
\* there are at most as many articles as items, and fewer when some item
\* has no post.
C2_OneArticlePerPost ==
    Ok200 =>
        LET posted == SelectSeq(items, HasPost)
        IN  /\ Len(Articles) = Len(posted)
            /\ \A k \in 1..Len(posted) :
                  k <= Len(Articles) =>
                      Articles[k].title = title_of(posted[k].post)
            /\ Len(Articles) <= Len(items)
            /\ (\E i \in 1..Len(items) : ~HasPost(items[i])) =>
                  Len(Articles) < Len(items)

-----------------------------------------------------------------------------
(* C8 *)

Missing(v) == v.kind \in {"absent", "null"}

PathSegmentMissing(doc) ==
    \/ Missing(doc.data)
    \/ doc.data.kind = "object" /\ Missing(doc.data.tagFeed)
    \/ /\ doc.data.kind = "object"
       /\ doc.data.tagFeed.kind = "object"
       /\ Missing(doc.data.tagFeed.items)

\* C8: when the upstream payload parses and has no non-empty errors array,
\* a missing segment of data.tagFeed.items makes the item list empty, and
\* the response is 200 with no articles, not an error.
C8_MissingPathGivesEmptyFeed ==
    ( /\ Done
      /\ data_from_medium.kind = "object"
      /\ ~(data_from_medium.errors.kind = "array"
           /\ data_from_medium.errors.elems # << >>)
      /\ PathSegmentMissing(data_from_medium) )
    => (Ok200 /\ Articles = << >>)

-----------------------------------------------------------------------------
(* C7 *)

\* C7: whatever the request body and the upstream outcome, the handler ends
\* with a structured JSON response: 200 with articles, or an error status
\* with an error field.
C7_AlwaysStructuredResponse ==
    Done =>
        /\ response.kind = "json"
        /\ \/ response.status = 200 /\ response.articles.kind = "array"
           \/ response.status # 200 /\ response.error # Absent

-----------------------------------------------------------------------------
(* C6 *)

\* C6: the upstream call is issued only with the API key configured and the
\* body, tagSlug and mode valid; with the key missing the response is 500
\* whatever the body; with the key missing or the request invalid the
\* handling ends with no upstream call issued.
C6_GatesBeforeUpstream ==
    /\ upstreamCalls <= 1
    /\ (upstreamCalls > 0 \/ pc = "send") => (KeyConfigured /\ BodyValid(body))
    /\ (Done /\ ~KeyConfigured) => (ErrorResponse(500) /\ upstreamCalls = 0)
    /\ (Done /\ ~BodyValid(body)) => upstreamCalls = 0

\* the key is missing and the body is valid: 500, and nothing was sent
C6_Witness ==
    /\ Done
    /\ ~KeyConfigured
    /\ BodyValid(body)
    /\ response.status = 500
    /\ upstreamCalls = 0

-----------------------------------------------------------------------------
(* C5 *)

InvalidModeMessage ==
    "Invalid mode. Must be one of: HOT, NEW, TOP_ALL_TIME, TOP_MONTH, TOP_WEEK, TOP_YEAR"

Classified(b) ==
    IF ~TagSlugGiven(b)
    THEN Rejected("Missing 'tagSlug' in request body.")
    ELSE IF ~ModeGiven(b)
    THEN Rejected("Missing 'mode' in request body.")
    ELSE IF TrimmedUpper(b.mode.s) \notin SixModes
    THEN Rejected(InvalidModeMessage)
    ELSE /\ variables = [tagSlug |-> b.tagSlug, mode |-> TrimmedUpper(b.mode.s)]
         /\ pc = "send" \/ upstreamCalls = 1

EmptyObject(b) ==
    b.kind = "object" /\ b.tagSlug = Absent /\ b.mode.kind = "absent" /\ ~b.extra

\* C5 as stated: with the key configured, every JSON object body is
\* classified in this order: tagSlug absent or empty -> 400 naming tagSlug;
\* mode absent or empty -> 400 naming mode; mode, trimmed and uppercased,
\* not one of the six -> 400 listing them; else accepted, with the tagSlug
\* unchanged and the normalized mode sent upstream.
C5_EveryObjectClassified ==
    (KeyConfigured /\ body.kind = "object" /\ PastValidation) => Classified(body)

\* C5 amended: the same classification for every JSON object body with at
\* least one key; the empty object {} is answered 400 as a body with no JSON
\* data, without tagSlug being named.
C5_NonEmptyObjectClassified ==
    (KeyConfigured /\ body.kind = "object" /\ PastValidation) =>
        IF EmptyObject(body)
        THEN Rejected("No JSON data provided in request body or invalid JSON format.")
        ELSE Classified(body)

\* a padded lowercase mode is accepted and sent as HOT
C5_Witness ==
    /\ pc = "send"
    /\ KeyConfigured
    /\ body.kind = "object"
    /\ body.mode = JString(<< " ", "h", "o", "t", " " >>)
    /\ variables = [tagSlug |-> body.tagSlug, mode |-> MODE_HOT]

-----------------------------------------------------------------------------
(* C4 *)

\* C4: after the upstream call, upstream HTTP 4xx/5xx gives the same status;
\* a timeout 504; another network failure 503; a body that is not JSON once
\* the prefix is stripped 502; a parsed body with a non-empty errors array
\* 400 with that array as details; each with an error field and no articles.
C4_UpstreamOutcomeStatus ==
    (Done /\ upstreamCalls = 1) =>
        /\ upstream.kind = "http_error" => ErrorResponse(upstream.status)
        /\ upstream.kind = "timeout" => ErrorResponse(504)
        /\ upstream.kind = "network" => ErrorResponse(503)
        /\ (upstream.kind = "ok"
              /\ WithoutLiteralPrefix(upstream.text) # << DocTok >>)
           => ErrorResponse(502)
        /\ (upstream.kind = "ok"
              /\ WithoutLiteralPrefix(upstream.text) = << DocTok >>
              /\ upstream.doc.kind = "object"
              /\ upstream.doc.errors.kind = "array"
              /\ upstream.doc.errors.elems # << >>)
           => (ErrorResponse(400) /\ response.details = upstream.doc.errors)

\* a prefixed body with GraphQL errors: 400 with the errors as details
C4_Witness ==
    /\ Done
    /\ upstream.kind = "ok"
    /\ HasLiteralPrefix(upstream.text)
    /\ response.status = 400
    /\ response.details = JArray(<< "e1", "e2" >>)

-----------------------------------------------------------------------------
(* C10 *)

\* C10: clean_medium_response removes the literal prefix once, and only from
\* a body that starts with it, and returns the rest unchanged; a body that
\* does not start with the prefix comes back unchanged.
C10_PrefixRemovedOnce ==
    (pc # "clean") =>
        IF HasLiteralPrefix(upstream.text)
        THEN upstream.text = prefix_to_remove \o cleaned_text
        ELSE cleaned_text = upstream.text

\* a body with the prefix twice: one copy is left after cleaning
C10_Witness ==
    /\ pc = "parse"
    /\ HasLiteralPrefix(upstream.text)
    /\ HasLiteralPrefix(cleaned_text)
    /\ Len(upstream.text) = Len(cleaned_text) + Len(prefix_to_remove)

====
